---- MODULE Spec2Model ----
(***************************************************************************)
(* A model of firefly's incremental analysis core:                         *)
(*   - src/src/env.rs     the incremental compilation engine (Env)         *)
(*   - src/src/parser.rs  the resilient CST parser (Parser)                *)
(*                                                                         *)
(* Spec       : the engine. One action per public operation of Env, with   *)
(*              compile split at its loop heads and suspension points       *)
(*              (reading an import, sending a notification).                *)
(* ParserSpec : the parser run, one step per token-level operation, on     *)
(*              every token sequence up to MaxLen.                          *)
(***************************************************************************)
EXTENDS Integers, Sequences, FiniteSets, Bags, TLC

VARIABLES
    \* ---- fields of Env (env.rs:31-41)
    file_storage,   \* Storage<id::File, File>: id -> file record
    created,        \* Relations: the dependency graph [nodes, edges]
    visited,        \* HashSet of ids that were ever the root of compile
    uris,           \* canonical path -> id
    files,          \* id -> canonical path
    sink_open,      \* whether the receiver of event_sender is still connected
    \* ---- the running compile call (env.rs:118-157)
    pc,             \* "idle" | "loop" | "imports" | "batch"
    stack,          \* the work stack (a Vec, popped from its end)
    call_visited,   \* the local `visited` of compile
    to_update,      \* the local `to_update`
    current_id,     \* the file being processed (0: none)
    program,        \* the lowered program of current_id
    imports,        \* the previous import set returned by precompile
    new_imports,    \* the import set process_imports is building
    req_idx,        \* position of process_imports in program.vec
    batch,          \* files of the refresh batch not yet reached
    \* ---- what the caller and the sink observe
    ret,            \* result of the last compile: "-", "pending", "Some", "None"
    sent,           \* Recompiled events of the current/last ungated compile call
    \* ---- history
    last,           \* the last operation invoked, with its arguments
    roots,          \* ids ever passed to compile as root
    dirty,          \* files whose text apply_edits changed since their last parse
    root_dirty,     \* whether the root was dirty when the last compile was invoked
    parsed,         \* files reparsed in the current/last ungated compile call
    refreshed,      \* files whose diagnostics were recomputed in that call
    snap,           \* file_storage as it was when the refresh batch started
    n_edits,        \* number of apply_edits calls so far
    \* ---- the filesystem
    removed,        \* canonical paths deleted from disk since the start
    \* ---- the parser run (parser.rs:15-20)
    tokens,         \* the token kinds the lexer yields
    pos,            \* number of tokens consumed from the lexer
    frames,         \* the call stack of the recursive descent
    tree,           \* the builder's event list
    errors,         \* Parser.errors
    span,           \* Parser.span
    ppc             \* "run" | "done" | "panic"

engineVars == <<file_storage, created, visited, uris, files, sink_open,
                pc, stack, call_visited, to_update, current_id, program,
                imports, new_imports, req_idx, batch, ret, sent,
                last, roots, dirty, root_dirty, parsed, refreshed, snap, n_edits,
                removed>>
parserVars == <<tokens, pos, frames, tree, errors, span, ppc>>
vars == <<engineVars, parserVars>>

-----------------------------------------------------------------------------
(* Bounds *)

\* longest text, in top-level forms
MaxForms == 2
\* apply_edits calls in one run
MaxEditCalls == 1
\* longest token sequence given to the parser
MaxLen == 4

-----------------------------------------------------------------------------
(* Texts.  A source text is a sequence of top-level forms.                 *)

Req(p) == [k |-> "req", v |-> p]
Def(n) == [k |-> "def", v |-> n]
Ref(n) == [k |-> "ref", v |-> n]
Junk   == [k |-> "junk", v |-> ""]

\* Path strings that occur in require forms and in ensure_file calls.
PathStrings == {"a", "./a", "b", "c", "nope", "dir", "locked"}

\* The filesystem: what PathBuf::canonicalize yields ("" for Err, which
\* is what a path that does not or no longer exist gives).
canonicalize(p) ==
    CASE p \in {"a", "./a"} -> "/a"
      [] p = "b"            -> IF "/b" \in removed THEN "" ELSE "/b"
      [] p = "locked"       -> "/locked"
      [] p = "c"            -> "/c"
      [] p = "dir"          -> "/dir"
      [] OTHER              -> ""

\* exists() && is_file()
is_file(cp) == cp \in {"/a", "/b", "/c", "/locked"}

\* The contents read_file_source reads from disk.
Disk(cp) ==
    CASE cp = "/a" -> <<Req("b"), Def("f")>>
      [] cp = "/b" -> <<Def("f")>>
      [] cp = "/c" -> <<Req("./a"), Ref("g")>>
      [] OTHER     -> <<>>

\* The unsaved buffer an editor may hand to ensure_file instead.
Buffer(cp) ==
    CASE cp = "/a" -> <<Req("b"), Req("c")>>
      [] cp = "/b" -> <<Def("f"), Def("f")>>
      [] cp = "/c" -> <<Junk, Req("nope")>>
      [] OTHER     -> <<>>

\* Ids a caller may hand to compile / apply_edits.
Ids == 1..3

\* The edits a caller may send: replace forms [start, end) by data.
EditCatalogue ==
    { [start |-> 0, end |-> 1, data |-> <<Req("a")>>],
      [start |-> 0, end |-> 1, data |-> <<>>],
      [start |-> 1, end |-> 1, data |-> <<Def("f")>>],
      [start |-> 1, end |-> 2, data |-> <<Ref("g")>>],
      [start |-> 0, end |-> 2, data |-> <<Req("dir"), Req("locked")>>] }


-----------------------------------------------------------------------------
(* Collaborators of the engine that live outside src/: the arena, the      *)
(* dependency graph, the lowering and the binding resolver.                *)

\* Storage::add: the arena hands out the next unused identifier.
storage_add(fs) == Cardinality(DOMAIN fs) + 1

\* Relations::add_node
add_node(g, id) == [g EXCEPT !.nodes = @ \cup {id}]

\* Relations::connect(a, b): the edge a -> b, "a requires b"
connect(g, a, b) == [g EXCEPT !.edges = @ \cup {<<a, b>>}]

\* Relations::remove_edge(a, b)
remove_edge(g, a, b) == [g EXCEPT !.edges = @ \ {<<a, b>>}]

\* Relations::get_dependents(id): the files that directly require id
get_dependents(g, id) == {e[1] : e \in {x \in g.edges : x[2] = id}}

RECURSIVE affected(_, _)
\* Relations::affected(seed): the seeds and everything that transitively
\* depends on one of them
affected(g, seed) ==
    LET more == seed \cup {e[1] : e \in {x \in g.edges : x[2] \in seed}}
    IN  IF more = seed THEN seed ELSE affected(g, more)

\* to_abstract: the program of a tree is its well-formed top-level forms,
\* each with the span of the form it came from; lowering reports nothing.
to_abstract(t) ==
    [program |-> SelectSeq(t, LAMBDA x : x.k # "junk"), errors |-> EmptyBag]

\* ScopeTracker::register_program: tracker.defined, name -> spans of its
\* top-level definitions
tracker_defined(prog) ==
    LET names == {prog[i].v : i \in {j \in 1..Len(prog) : prog[j].k = "def"}}
    IN  [n \in names |->
            {prog[i].span : i \in {j \in 1..Len(prog) :
                                     prog[j].k = "def" /\ prog[j].v = n}}]

\* ScopeTracker::check_program: tracker.unbound, the references that neither
\* a local definition nor an imported name resolves, as (on, instance)
tracker_unbound(prog, imported) ==
    LET local == {prog[i].v : i \in {j \in 1..Len(prog) : prog[j].k = "def"}}
    IN  {[on |-> prog[i].span, data |-> prog[i].v, span |-> prog[i].span] :
            i \in {j \in 1..Len(prog) :
                     /\ prog[j].k = "ref"
                     /\ prog[j].v \notin local
                     /\ prog[j].v \notin imported}}

\* tracker.scopes.finish(): the scope index of the program, one top-level
\* scope that binds the program's definitions
scopes_finish(prog) ==
    [over |-> prog,
     vars |-> {prog[i].v : i \in {j \in 1..Len(prog) : prog[j].k = "def"}}]

-----------------------------------------------------------------------------
(* The engine's own functions (env.rs).                                    *)

\* File::new(SyntaxNode::empty(), "", Vec::new())
EmptyFile ==
    [source |-> <<>>, new_tree |-> <<>>, errors |-> EmptyBag, imports |-> {},
     ast |-> <<>>, names |-> {}, scopes |-> [over |-> <<>>, vars |-> {}],
     errored_tl |-> {}]

\* parse(&file.source), at the granularity of top-level forms: every form
\* that does not start with "(" is one "Expected (" error (parser.rs:178)
parse(source) ==
    LET t == [i \in 1..Len(source) |->
                [k |-> source[i].k, v |-> source[i].v, span |-> i]]
    IN  [tree   |-> t,
         errors |-> SetToBag({[msg |-> "Expected (", span |-> i] :
                        i \in {j \in 1..Len(source) : source[j].k = "junk"}})]

\* String::replace_range(start..end, data)
replace_range(source, start, end, data) ==
    SubSeq(source, 1, start) \o data \o SubSeq(source, end + 1, Len(source))

RECURSIVE apply_edits(_, _)
\* the loop of Env::apply_edits: each edit is resolved against the text as
\* the edits before it left it
apply_edits(source, edits) ==
    IF edits = <<>> THEN source
    ELSE apply_edits(replace_range(source, Head(edits).start,
                                   Head(edits).end, Head(edits).data),
                     Tail(edits))

RECURSIVE edits_in_range(_, _)
\* replace_range panics on a range outside the text: such calls are not made
edits_in_range(source, edits) ==
    IF edits = <<>> THEN TRUE
    ELSE /\ Head(edits).start <= Head(edits).end
         /\ Head(edits).end <= Len(source)
         /\ edits_in_range(replace_range(source, Head(edits).start,
                                         Head(edits).end, Head(edits).data),
                           Tail(edits))

\* The part of Env the registry operations work on.
Env == [file_storage |-> file_storage, created |-> created,
        uris |-> uris, files |-> files]

\* Env::add_file
add_file(e, path) ==
    LET id == storage_add(e.file_storage)
    IN  [env |-> [file_storage |-> [i \in DOMAIN e.file_storage \cup {id} |->
                                      IF i = id THEN EmptyFile
                                      ELSE e.file_storage[i]],
                  created |-> add_node(e.created, id),
                  uris    |-> [p \in DOMAIN e.uris \cup {path} |->
                                 IF p = path THEN id ELSE e.uris[p]],
                  files   |-> [i \in DOMAIN e.files \cup {id} |->
                                 IF i = id THEN path ELSE e.files[i]]],
         id  |-> id]

\* Env::update_file
update_file(e, id, source) ==
    [e EXCEPT !.file_storage[id].source = source]

\* ensure_file that also brings a known file's text "up to date"
ensure_file_overwrites(e, path, source) ==
    LET cp == canonicalize(path)
    IN  IF cp \in DOMAIN e.uris
        THEN [env |-> update_file(e, e.uris[cp], source), id |-> e.uris[cp]]
        ELSE LET a == add_file(e, cp)
             IN  [env |-> update_file(a.env, a.id, source), id |-> a.id]

\* Env::ensure_file, for a path that canonicalizes
ensure_file(e, path, source) ==
    LET cp == canonicalize(path)
    IN  IF cp \in DOMAIN e.uris
        THEN [env |-> e, id |-> e.uris[cp]]
        ELSE LET a == add_file(e, cp)
             IN  [env |-> update_file(a.env, a.id, source), id |-> a.id]

\* Env::parse_file
parse_file(fs, id) ==
    LET r == parse(fs[id].source)
    IN  [fs EXCEPT ![id].new_tree = r.tree, ![id].errors = r.errors]

\* Env::precompile, for a registered id: the storage after it, the program
\* and the previous import set
precompile(fs, id) ==
    LET fs1 == parse_file(fs, id)
        low == to_abstract(fs1[id].new_tree)
    IN  [file_storage |-> [fs1 EXCEPT ![id].errors = @ (+) low.errors],
         program      |-> low.program,
         imports      |-> fs1[id].imports]

\* update_file_imports that also drops the names exported so far
update_file_imports_drops_names(fs, id, imps, prog) ==
    [fs EXCEPT ![id].imports = imps, ![id].ast = prog, ![id].names = {}]

\* Env::update_file_imports
update_file_imports(fs, id, imps, prog) ==
    [fs EXCEPT ![id].imports = imps, ![id].ast = prog]

RECURSIVE remove_edges(_, _, _)
\* update_relations, lines 235-238: remove_edge for every removed import
remove_edges(g, id, targets) ==
    IF targets = {} THEN g
    ELSE LET t == CHOOSE x \in targets : TRUE
         IN  remove_edges(remove_edge(g, id, t), id, targets \ {t})

RECURSIVE connect_edges(_, _, _)
\* update_relations, lines 240-243: connect for every added import
connect_edges(g, id, targets) ==
    IF targets = {} THEN g
    ELSE LET t == CHOOSE x \in targets : TRUE
         IN  connect_edges(connect(g, id, t), id, targets \ {t})

\* update_relations that never removes an edge
update_relations_keeps_edges(g, id, old_imports, new) ==
    [created |-> connect_edges(g, id, new \ old_imports),
     affected_files |-> (old_imports \ new) \cup (new \ old_imports)]

\* update_relations that reports only the added targets as changed
update_relations_added_only(g, id, old_imports, new) ==
    [created |-> connect_edges(remove_edges(g, id, old_imports \ new),
                               id, new \ old_imports),
     affected_files |-> new \ old_imports]

\* Env::update_relations: the graph after the diff and the changed targets
update_relations(g, id, old_imports, new) ==
    [created |-> connect_edges(remove_edges(g, id, old_imports \ new),
                               id, new \ old_imports),
     affected_files |-> (old_imports \ new) \cup (new \ old_imports)]

\* to_update without the processed file itself
join_dependents_only(tu, g, id) == tu \cup get_dependents(g, id)

\* compile, lines 140-144: the file and its direct dependents join to_update
join_to_update(tu, g, id) == tu \cup {id} \cup get_dependents(g, id)

\* the gate as a guard against re-entry only: never set when a call starts
gate_reentry_only(vis, id) == FALSE

\* compile, lines 119-121: the gate
gate(vis, id) == id \in vis

\* update_file_errors, lines 270-279: the names its imports export
imported_names(fs, id) ==
    UNION {{n.data : n \in fs[i].names} : i \in fs[id].imports}

\* update_file_errors, lines 283-298: the "duplicated function." errors
duplicate_errors(defined, imported) ==
    SetToBag({[msg |-> "duplicated function.", span |-> s] :
        s \in UNION {IF Cardinality(defined[n]) > 1 THEN defined[n]
                     ELSE IF n \in imported THEN defined[n] ELSE {} :
                     n \in DOMAIN defined}})

\* update_file_errors, lines 283-298: the spans put into errored_defs
errored_defs(defined) ==
    UNION {defined[n] : n \in DOMAIN defined}

\* update_file_errors, lines 311-319: the "cannot find variable" errors
unbound_errors(unbound) ==
    SetToBag({[msg |-> "cannot find variable", span |-> u.span] : u \in unbound})

\* Env::update_file_errors
update_file_errors(fs, id) ==
    LET imported == imported_names(fs, id)
        defined  == tracker_defined(fs[id].ast)
        unbound  == tracker_unbound(fs[id].ast, imported)
    IN  [fs EXCEPT
            ![id].errors = @ (+) duplicate_errors(defined, imported)
                             (+) unbound_errors(unbound),
            ![id].names = UNION {{[data |-> n, span |-> s] : s \in defined[n]} :
                                    n \in DOMAIN defined},
            ![id].scopes = scopes_finish(fs[id].ast),
            ![id].errored_tl = errored_defs(defined)
                                 \cup {u.on : u \in unbound}]

-----------------------------------------------------------------------------
(* The engine as a state machine.                                          *)

ParserIdle ==
    /\ tokens = <<>>
    /\ pos = 0
    /\ frames = <<>>
    /\ tree = <<>>
    /\ errors = <<>>
    /\ span = 0
    /\ ppc = "done"

NoCall == [op |-> "new", id |-> 0, path |-> "", source |-> <<>>]

\* Env::new
EnvNew ==
    /\ file_storage = <<>>
    /\ created = [nodes |-> {}, edges |-> {}]
    /\ visited = {}
    /\ uris = <<>>
    /\ files = <<>>
    /\ sink_open = TRUE
    /\ pc = "idle"
    /\ stack = <<>>
    /\ call_visited = {}
    /\ to_update = {}
    /\ current_id = 0
    /\ program = <<>>
    /\ imports = {}
    /\ new_imports = {}
    /\ req_idx = 0
    /\ batch = {}
    /\ ret = "-"
    /\ sent = <<>>
    /\ last = NoCall
    /\ roots = {}
    /\ dirty = {}
    /\ root_dirty = FALSE
    /\ parsed = {}
    /\ refreshed = {}
    /\ snap = <<>>
    /\ n_edits = 0
    /\ removed = {}

Init == EnvNew /\ ParserIdle

callVars == <<stack, call_visited, to_update, current_id, program, imports,
              new_imports, req_idx, batch>>
histVars == <<roots, dirty, root_dirty, parsed, refreshed, snap>>

\* compile returns: its locals are dropped, and so is the record of the call
DropCall ==
    /\ stack' = <<>>
    /\ call_visited' = {}
    /\ to_update' = {}
    /\ current_id' = 0
    /\ program' = <<>>
    /\ imports' = {}
    /\ new_imports' = {}
    /\ req_idx' = 0
    /\ batch' = {}
    /\ sent' = <<>>
    /\ root_dirty' = FALSE
    /\ parsed' = {}
    /\ refreshed' = {}
    /\ snap' = <<>>

SetEnv(e) ==
    /\ file_storage' = e.file_storage
    /\ created' = e.created
    /\ uris' = e.uris
    /\ files' = e.files

\* Env::ensure_file, called by the editor for a path that exists
EnsureFile(path, source) ==
    /\ pc = "idle"
    /\ canonicalize(path) # ""
    /\ LET r == ensure_file(Env, path, source)
       IN  /\ SetEnv(r.env)
           /\ last' = [op |-> "ensure_file", id |-> r.id, path |-> path,
                       source |-> source]
    /\ UNCHANGED <<visited, sink_open, pc, callVars, ret, sent, histVars,
                   n_edits, removed, parserVars>>

\* Env::apply_edits
ApplyEdits(id, edits) ==
    /\ pc = "idle"
    /\ n_edits < MaxEditCalls
    /\ n_edits' = n_edits + 1
    /\ last' = [op |-> "apply_edits", id |-> id, path |-> "", source |-> <<>>]
    /\ IF id \in DOMAIN file_storage
       THEN /\ edits_in_range(file_storage[id].source, edits)
            /\ Len(apply_edits(file_storage[id].source, edits)) <= MaxForms
            /\ file_storage' = [file_storage EXCEPT ![id].source =
                                   apply_edits(@, edits)]
            /\ dirty' = IF file_storage'[id].source # file_storage[id].source
                        THEN dirty \cup {id} ELSE dirty
       ELSE UNCHANGED <<file_storage, dirty>>
    /\ UNCHANGED <<created, visited, uris, files, sink_open, pc, callVars,
                   ret, sent, roots, root_dirty, parsed, refreshed, snap,
                   removed, parserVars>>

\* Env::compile, lines 118-126: the gate and the locals
Compile(id) ==
    /\ pc = "idle"
    /\ last' = [op |-> "compile", id |-> id, path |-> "", source |-> <<>>]
    /\ roots' = roots \cup {id}
    /\ IF gate(visited, id)
       THEN /\ ret' = "None"
            /\ UNCHANGED <<visited, pc, callVars, sent, dirty, root_dirty,
                           parsed, refreshed, snap>>
       ELSE /\ visited' = visited \cup {id}
            /\ stack' = <<id>>
            /\ call_visited' = {}
            /\ to_update' = {}
            /\ pc' = "loop"
            /\ ret' = "pending"
            /\ sent' = <<>>
            /\ root_dirty' = (id \in dirty)
            /\ parsed' = {}
            /\ refreshed' = {}
            /\ UNCHANGED <<current_id, program, imports, new_imports, req_idx,
                           batch, dirty, snap>>
    /\ UNCHANGED <<file_storage, created, uris, files, sink_open, n_edits,
                   removed, parserVars>>


\* Position of the next require form of program.vec at or after i (0: none)
next_require(prog, i) ==
    LET rs == {j \in i..Len(prog) : prog[j].k = "req"}
    IN  IF rs = {} THEN 0 ELSE CHOOSE j \in rs : \A k \in rs : j <= k

\* a worklist without its processed-in-this-call set
never_processed(cv, id) == FALSE

\* compile, lines 129-131: visited.contains(&current_id)
already_processed(cv, id) == id \in cv

\* a loop that may be left after any iteration
loop_left_early(stk) == TRUE

\* compile, line 128: the worklist loop ends when the stack is empty
loop_done(stk) == stk = <<>>

\* Env::read_file_source: open or read fails on the file without read
\* permission
read_file_source(cp) == [ok |-> cp # "/locked", source |-> Disk(cp)]

\* import resolution that registers whatever the path names
process_required_any_path(e, path_str) ==
    IF canonicalize(path_str) = "" THEN [env |-> e, id |-> 0]
    ELSE ensure_file(e, path_str, Disk(canonicalize(path_str)))

\* Env::process_required and process_import_path for one require form:
\* the registry after it and the resolved id (0 for None)
process_required(e, path_str) ==
    LET cp == canonicalize(path_str)
    IN  IF cp = "" \/ ~is_file(cp) \/ ~read_file_source(cp).ok
        THEN [env |-> e, id |-> 0]
        ELSE ensure_file(e, path_str, read_file_source(cp).source)

\* The orders in which a HashSet may hand out its elements
Orders(S) ==
    {o \in [1..Cardinality(S) -> S] : \A x \in S : \E i \in DOMAIN o : o[i] = x}

\* compile, lines 128-135: pop a file, skip it if already processed in this
\* call, else reparse and lower it
LoopPop ==
    /\ pc = "loop"
    /\ stack # <<>>
    /\ LET id == stack[Len(stack)]
       IN  IF already_processed(call_visited, id)
           THEN /\ stack' = SubSeq(stack, 1, Len(stack) - 1)
                /\ UNCHANGED <<file_storage, pc, call_visited, to_update,
                               current_id, program, imports, new_imports,
                               req_idx, batch, ret, sent, dirty, root_dirty,
                               parsed, refreshed, snap>>
           ELSE IF id \notin DOMAIN file_storage
           THEN /\ pc' = "idle"
                /\ ret' = "None"
                /\ DropCall
                /\ UNCHANGED <<file_storage, dirty>>
           ELSE LET r == precompile(file_storage, id)
                IN  /\ stack' = SubSeq(stack, 1, Len(stack) - 1)
                    /\ call_visited' = call_visited \cup {id}
                    /\ file_storage' = r.file_storage
                    /\ program' = r.program
                    /\ imports' = r.imports
                    /\ current_id' = id
                    /\ new_imports' = {}
                    /\ req_idx' = 1
                    /\ pc' = "imports"
                    /\ parsed' = parsed \cup {id}
                    /\ dirty' = dirty \ {id}
                    /\ UNCHANGED <<to_update, batch, ret, sent, root_dirty,
                                   refreshed, snap>>
    /\ UNCHANGED <<created, visited, uris, files, sink_open, last, roots,
                   n_edits, removed, parserVars>>

\* process_imports, lines 215-221: resolve the next require form
ProcessRequired ==
    /\ pc = "imports"
    /\ next_require(program, req_idx) # 0
    /\ LET i == next_require(program, req_idx)
           r == process_required(Env, program[i].v)
       IN  /\ SetEnv(r.env)
           /\ new_imports' = IF r.id = 0 THEN new_imports
                             ELSE new_imports \cup {r.id}
           /\ req_idx' = i + 1
    /\ UNCHANGED <<visited, sink_open, pc, stack, call_visited, to_update,
                   current_id, program, imports, batch, ret, sent, last,
                   histVars, n_edits, removed, parserVars>>

\* compile, lines 137-146: store the imports, diff the edges, extend
\* to_update and push the changed targets
Link ==
    /\ pc = "imports"
    /\ next_require(program, req_idx) = 0
    /\ LET r == update_relations(created, current_id, imports, new_imports)
       IN  /\ file_storage' = update_file_imports(file_storage, current_id,
                                                  new_imports, program)
           /\ created' = r.created
           /\ to_update' = join_to_update(to_update, r.created, current_id)
           /\ \E o \in Orders(r.affected_files) : stack' = stack \o o
    /\ pc' = "loop"
    /\ UNCHANGED <<visited, uris, files, sink_open, call_visited, current_id,
                   program, imports, new_imports, req_idx, batch, ret, sent,
                   last, histVars, n_edits, removed, parserVars>>

\* compile, line 149: the work stack is empty, close to_update under affected
LoopEnd ==
    /\ pc = "loop"
    /\ loop_done(stack)
    /\ batch' = affected(created, to_update)
    /\ snap' = file_storage
    /\ pc' = "batch"
    /\ UNCHANGED <<file_storage, created, visited, uris, files, sink_open,
                   stack, call_visited, to_update, current_id, program,
                   imports, new_imports, req_idx, ret, sent, last, roots,
                   dirty, root_dirty, parsed, refreshed, n_edits, removed, parserVars>>

\* a failed send that is ignored (`.ok();`)
send_never_aborts(open) == FALSE

\* compile, line 153: `.ok()?` returns None when the send failed
send_aborts(open) == ~open

\* compile, lines 151-154: recompute one batch file's diagnostics and send
\* its Recompiled event
Refresh(file) ==
    /\ pc = "batch"
    /\ file \in batch
    /\ file_storage' = update_file_errors(file_storage, file)
    /\ IF send_aborts(sink_open)
       THEN /\ pc' = "idle"
            /\ ret' = "None"
            /\ DropCall
       ELSE /\ sent' = IF sink_open THEN Append(sent, file) ELSE sent
            /\ refreshed' = refreshed \cup {file}
            /\ batch' = batch \ {file}
            /\ UNCHANGED <<pc, ret, stack, call_visited, to_update,
                           current_id, program, imports, new_imports,
                           req_idx, root_dirty, parsed, snap>>
    /\ UNCHANGED <<created, visited, uris, files, sink_open, last, roots,
                   dirty, n_edits, removed, parserVars>>

\* compile, line 156
Return ==
    /\ pc = "batch"
    /\ batch = {}
    /\ pc' = "idle"
    /\ ret' = "Some"
    /\ DropCall
    /\ UNCHANGED <<file_storage, created, visited, uris, files, sink_open,
                   last, roots, dirty, n_edits, removed, parserVars>>

\* The consumer of the notification channel disconnects.  Only send observes
\* it, so a disconnection at any earlier moment shows as one that happens
\* when the batch starts.
CloseSink ==
    /\ sink_open
    /\ pc = "batch"
    /\ sink_open' = FALSE
    /\ UNCHANGED <<file_storage, created, visited, uris, files, pc, callVars,
                   ret, sent, last, histVars, n_edits, removed, parserVars>>

\* Another process deletes a registered file from disk between two engine
\* operations
RemoveFile(cp) ==
    /\ pc = "idle"
    /\ cp \in DOMAIN uris
    /\ cp \notin removed
    /\ removed' = removed \cup {cp}
    /\ last' = [op |-> "unlink", id |-> uris[cp], path |-> cp, source |-> <<>>]
    /\ UNCHANGED <<file_storage, created, visited, uris, files, sink_open, pc,
                   callVars, ret, sent, histVars, n_edits, parserVars>>

\* The files that may disappear
Removable == {"/b"}

\* The paths an editor opens, and the one-edit requests it sends
OpenPaths == {"a", "./a", "c"}
EditLists == {<<e>> : e \in EditCatalogue}

Next ==
    \/ \E path \in OpenPaths :
         \E source \in {Disk(canonicalize(path)), Buffer(canonicalize(path))} :
            EnsureFile(path, source)
    \/ \E id \in Ids : \E edits \in EditLists : ApplyEdits(id, edits)
    \/ \E id \in Ids : Compile(id)
    \/ LoopPop
    \/ ProcessRequired
    \/ Link
    \/ LoopEnd
    \/ \E file \in batch : Refresh(file)
    \/ Return
    \/ CloseSink
    \/ \E cp \in Removable : RemoveFile(cp)

Spec == Init /\ [][Next]_vars

\* compile is one future that its caller awaits: once started, the worklist
\* loop keeps taking its next step
FairSpec ==
    /\ Init /\ [][Next]_vars
    /\ WF_vars(LoopPop) /\ WF_vars(ProcessRequired)
    /\ WF_vars(Link) /\ WF_vars(LoopEnd)

-----------------------------------------------------------------------------
(* The parser as a state machine (parser.rs).  A token is its kind; the    *)
(* span of the i-th token is i.  The recursive descent runs on an explicit *)
(* stack of frames, one per active call of parse, list, quote or expr.     *)

TokenKinds == {"LPar", "RPar", "String", "Identifier", "Number",
               "SimpleQuote", "Whitespace", "Comment", "Error"}

TokenSeqs == UNION {[1..n -> TokenKinds] : n \in 0..MaxLen}

\* Parser::current: the kind of the next token ("None" at end of input)
current == IF pos < Len(tokens) THEN tokens[pos + 1] ELSE "None"

\* Parser::current_span: the next token's span, else the last one seen
current_span == IF pos < Len(tokens) THEN pos + 1 ELSE span

\* the builder's events
StartNode(kind, sp) == [e |-> "start", k |-> kind, s |-> sp]
FinishNode(sp) == [e |-> "finish", k |-> "", s |-> sp]
\* bump that keeps trivia out of the tree
leaf_without_trivia(i) ==
    IF tokens[i] \in {"Whitespace", "Comment"}
    THEN [e |-> "skipped", k |-> tokens[i], s |-> i]
    ELSE [e |-> "token", k |-> tokens[i], s |-> i]

\* Parser::bump, lines 57-58: builder.token(kind, text, span)
Leaf(i) == [e |-> "token", k |-> tokens[i], s |-> i]

\* the unmatched error anchored where the list stopped
unmatched_error_at_end(start_span, sp) == [msg |-> "unmatched", span |-> sp]

\* Parser::list, lines 113-114: Error::new("unmatched", start_span)
unmatched_error(start_span, sp) == [msg |-> "unmatched", span |-> start_span]

Frame(fn, at, start_span) ==
    [fn |-> fn, at |-> at, start_span |-> start_span, span |-> 0,
     p0 |-> pos, r |-> ""]

Top == frames[Len(frames)]
SetTop(f) == [frames EXCEPT ![Len(frames)] = f]
\* the callee returns r to the frame below it
ReturnTo(r) ==
    LET n == Len(frames)
    IN  [i \in 1..n - 1 |-> IF i = n - 1 THEN [frames[i] EXCEPT !.r = r]
                            ELSE frames[i]]

\* Option::unwrap on an exhausted lexer (bump), or todo!()
Panic ==
    /\ ppc' = "panic"
    /\ UNCHANGED <<tokens, pos, frames, tree, errors, span>>

\* the arm of expr chosen without the RPar case
expr_head_no_rparen(kind) ==
    CASE kind = "None" -> "Eof"
      [] kind = "LPar" -> "list"
      [] kind \in {"String", "Identifier", "Number"} -> "atom"
      [] kind = "SimpleQuote" -> "quote"
      [] kind = "Error" -> "error"
      [] OTHER -> "todo"

\* Parser::expr, lines 148-166: the arm chosen for the current token
expr_head(kind) ==
    CASE kind = "None" -> "Eof"
      [] kind = "RPar" -> "RParen"
      [] kind = "LPar" -> "list"
      [] kind \in {"String", "Identifier", "Number"} -> "atom"
      [] kind = "SimpleQuote" -> "quote"
      [] kind = "Error" -> "error"
      [] OTHER -> "todo"

\* Parser::parse, lines 175-179: the arm chosen at the top level
top_head(kind) ==
    CASE kind = "None" -> "break"
      [] kind = "LPar" -> "list"
      [] OTHER -> "error"

\* Parser::new followed by the call of parse, on any token sequence
ParserInit ==
    /\ EnvNew
    /\ tokens \in TokenSeqs
    /\ pos = 0
    /\ frames = <<[fn |-> "parse", at |-> "start", start_span |-> 0,
                   span |-> 0, p0 |-> 0, r |-> ""]>>
    /\ tree = <<>>
    /\ errors = <<>>
    /\ span = 0
    /\ ppc = "run"

\* parse, line 172: start_node(Root)
ParseStart ==
    /\ ppc = "run" /\ Top.fn = "parse" /\ Top.at = "start"
    /\ tree' = Append(tree, StartNode("Root", current_span))
    /\ span' = current_span
    /\ frames' = SetTop([Top EXCEPT !.at = "loop", !.p0 = pos])
    /\ UNCHANGED <<tokens, pos, errors, ppc, engineVars>>

\* skip_whitespace, lines 64-68: one iteration of its loop
SkipWhitespace ==
    /\ ppc = "run"
    /\ \/ Top.fn = "parse" /\ Top.at = "loop"
       \/ Top.fn = "expr" /\ Top.at = "entry"
    /\ current \in {"Whitespace", "Comment"}
    /\ tree' = Append(tree, Leaf(pos + 1))
    /\ pos' = pos + 1
    /\ UNCHANGED <<tokens, frames, errors, span, ppc, engineVars>>

\* parse, lines 175-179: the match of the top-level loop
ParseLoop ==
    /\ ppc = "run" /\ Top.fn = "parse" /\ Top.at = "loop"
    /\ current \notin {"Whitespace", "Comment"}
    /\ span' = current_span
    /\ CASE top_head(current) = "break" ->
              /\ tree' = Append(tree, FinishNode(span'))
              /\ frames' = <<>>
              /\ ppc' = "done"
              /\ UNCHANGED <<pos, errors>>
         [] top_head(current) = "list" ->
              /\ frames' = Append(SetTop([Top EXCEPT !.at = "iter_end"]),
                                  Frame("list", "open", current_span))
              /\ UNCHANGED <<pos, tree, errors, ppc>>
         [] OTHER ->
              \* error("Expected ("), lines 95-102
              /\ tree' = tree \o <<StartNode("Error", current_span),
                                   Leaf(pos + 1), FinishNode(current_span)>>
              /\ errors' = Append(errors, [msg |-> "Expected (",
                                           span |-> current_span])
              /\ pos' = pos + 1
              /\ frames' = SetTop([Top EXCEPT !.at = "iter_end"])
              /\ UNCHANGED ppc
    /\ UNCHANGED <<tokens, engineVars>>

\* parse, line 173: the next iteration of the top-level loop
ParseIterate ==
    /\ ppc = "run" /\ Top.fn = "parse" /\ Top.at = "iter_end"
    /\ frames' = SetTop([Top EXCEPT !.at = "loop", !.p0 = pos])
    /\ UNCHANGED <<tokens, pos, tree, errors, span, ppc, engineVars>>

\* list, lines 106-107: start_node(List) and bump of the opening paren
ListOpen ==
    /\ ppc = "run" /\ Top.fn = "list" /\ Top.at = "open"
    /\ IF pos < Len(tokens)
       THEN /\ tree' = tree \o <<StartNode("List", current_span), Leaf(pos + 1)>>
            /\ span' = current_span
            /\ pos' = pos + 1
            /\ frames' = SetTop([Top EXCEPT !.at = "items"])
            /\ UNCHANGED <<tokens, errors, ppc>>
       ELSE Panic
    /\ UNCHANGED engineVars

\* list, lines 109-110: take the span and call expr
ListItem ==
    /\ ppc = "run" /\ Top.fn = "list" /\ Top.at = "items"
    /\ span' = current_span
    /\ frames' = Append(SetTop([Top EXCEPT !.at = "wait", !.span = current_span]),
                        Frame("expr", "entry", 0))
    /\ UNCHANGED <<tokens, pos, tree, errors, ppc, engineVars>>

\* list, lines 110-123: the match on what expr returned
ListAfter ==
    /\ ppc = "run" /\ Top.fn = "list" /\ Top.at = "wait" /\ Top.r # ""
    /\ CASE Top.r = "Ok" ->
              /\ frames' = SetTop([Top EXCEPT !.at = "items", !.r = ""])
              /\ UNCHANGED <<pos, tree, errors, ppc, span, tokens>>
         [] Top.r = "Eof" ->
              /\ errors' = Append(errors, unmatched_error(Top.start_span, Top.span))
              /\ tree' = Append(tree, FinishNode(Top.span))
              /\ frames' = ReturnTo("")
              /\ UNCHANGED <<pos, ppc, span, tokens>>
         [] OTHER ->
              IF pos < Len(tokens)
              THEN /\ tree' = tree \o <<Leaf(pos + 1), FinishNode(Top.span)>>
                   /\ pos' = pos + 1
                   /\ frames' = ReturnTo("")
                   /\ UNCHANGED <<errors, ppc, span, tokens>>
              ELSE Panic
    /\ UNCHANGED engineVars

\* quote, lines 129-132: start_node(Quote), bump of the quote, call expr
QuoteOpen ==
    /\ ppc = "run" /\ Top.fn = "quote" /\ Top.at = "open"
    /\ IF pos < Len(tokens)
       THEN /\ tree' = tree \o <<StartNode("Quote", current_span), Leaf(pos + 1)>>
            /\ pos' = pos + 1
            /\ span' = IF pos + 1 < Len(tokens) THEN pos + 2 ELSE current_span
            /\ frames' = Append(SetTop([Top EXCEPT !.at = "wait", !.span = span']),
                                [Frame("expr", "entry", 0) EXCEPT !.p0 = pos + 1])
            /\ UNCHANGED <<tokens, errors, ppc>>
       ELSE Panic
    /\ UNCHANGED engineVars

\* quote, lines 132-141: the match on what expr returned
QuoteAfter ==
    /\ ppc = "run" /\ Top.fn = "quote" /\ Top.at = "wait" /\ Top.r # ""
    /\ tree' = Append(tree, FinishNode(Top.span))
    /\ errors' = IF Top.r = "Ok" THEN errors
                 ELSE Append(errors, [msg |-> "no expression",
                                      span |-> Top.start_span])
    /\ frames' = ReturnTo("")
    /\ UNCHANGED <<tokens, pos, span, ppc, engineVars>>

\* expr, lines 148-166, once skip_whitespace is done
ExprMatch ==
    /\ ppc = "run" /\ Top.fn = "expr" /\ Top.at = "entry"
    /\ current \notin {"Whitespace", "Comment"}
    /\ CASE expr_head(current) \in {"Eof", "RParen"} ->
              /\ frames' = ReturnTo(expr_head(current))
              /\ span' = current_span
              /\ UNCHANGED <<pos, tree, errors, ppc>>
         [] expr_head(current) = "list" ->
              /\ frames' = Append(SetTop([Top EXCEPT !.at = "ret"]),
                                  Frame("list", "open", current_span))
              /\ span' = current_span
              /\ UNCHANGED <<pos, tree, errors, ppc>>
         [] expr_head(current) = "quote" ->
              /\ frames' = Append(SetTop([Top EXCEPT !.at = "ret"]),
                                  Frame("quote", "open", current_span))
              /\ span' = current_span
              /\ UNCHANGED <<pos, tree, errors, ppc>>
         [] expr_head(current) = "atom" ->
              \* string / identifier / number, lines 71-92
              /\ tree' = tree \o <<StartNode(current, current_span),
                                   Leaf(pos + 1), FinishNode(current_span)>>
              /\ pos' = pos + 1
              /\ span' = current_span
              /\ frames' = SetTop([Top EXCEPT !.at = "ret"])
              /\ UNCHANGED <<errors, ppc>>
         [] expr_head(current) = "error" ->
              \* lines 160-164: bump, then push the error
              /\ tree' = Append(tree, Leaf(pos + 1))
              /\ pos' = pos + 1
              /\ span' = current_span
              /\ errors' = Append(errors, [msg |-> "unfinished string",
                                           span |-> current_span])
              /\ frames' = SetTop([Top EXCEPT !.at = "ret"])
              /\ UNCHANGED ppc
         [] OTHER ->
              /\ ppc' = "panic"
              /\ UNCHANGED <<pos, frames, tree, errors, span>>
    /\ UNCHANGED <<tokens, engineVars>>

\* expr, line 167: Response::Ok
ExprReturn ==
    /\ ppc = "run" /\ Top.fn = "expr" /\ Top.at = "ret"
    /\ frames' = ReturnTo("Ok")
    /\ UNCHANGED <<tokens, pos, tree, errors, span, ppc, engineVars>>

ParserNext ==
    \/ ParseStart
    \/ SkipWhitespace
    \/ ParseLoop
    \/ ParseIterate
    \/ ListOpen
    \/ ListItem
    \/ ListAfter
    \/ QuoteOpen
    \/ QuoteAfter
    \/ ExprMatch
    \/ ExprReturn

ParserSpec == ParserInit /\ [][ParserNext]_vars /\ WF_vars(ParserNext)

-----------------------------------------------------------------------------
(* Properties of the engine.                                               *)

Range(q) == {q[i] : i \in DOMAIN q}
Count(q, x) == Cardinality({i \in DOMAIN q : q[i] = x})

\* A step in which the caller invokes compile (every call records itself in last)
CompileCalled == pc = "idle" /\ last'.op = "compile"

\* C1: compile(r) for an id r that was the root of an earlier compile call is
\* a no-op: no file is reparsed, no field of a file record changes, no edge
\* is added or removed, no notification is emitted, and the call returns
\* "not done" at once -- also when apply_edits changed r's text in between.
C1_GatedCompileIsNoOp ==
    [][(CompileCalled /\ last'.id \in roots) =>
          /\ file_storage' = file_storage
          /\ created' = created
          /\ uris' = uris /\ files' = files
          /\ sent' = sent
          /\ parsed' = parsed /\ refreshed' = refreshed
          /\ pc' = "idle"
          /\ ret' = "None"]_vars

\* C1 witness: a gated compile(r) has just returned although r's text was
\* edited after its last parse
C1_Witness ==
    /\ pc = "idle"
    /\ last.op = "compile"
    /\ ret = "None"
    /\ last.id \in DOMAIN file_storage
    /\ last.id \in dirty
    /\ file_storage[last.id].ast # <<>>

\* C2 (as claimed): whenever apply_edits changed the text of X and compile(X)
\* is then invoked with the sink open, the call reparses X from the edited
\* text and emits a notification for X -- on every round.  Stated at the
\* step in which the call returns, for a file X that was parsed before.
C2_EditedRootIsRecompiled ==
    [][(/\ last'.op = "compile"
        /\ pc' = "idle"
        /\ pc \in {"idle", "batch"}
        /\ sink_open
        /\ last'.id \in DOMAIN file_storage
        /\ file_storage[last'.id].new_tree # <<>>
        /\ IF pc = "idle" THEN last'.id \in dirty ELSE root_dirty)
          => /\ last'.id \notin dirty'
             /\ last'.id \in parsed
             /\ last'.id \in Range(sent)]_vars

\* C3: when compile processes a file whose stored import set is P and whose
\* newly resolved import set is N, it removes exactly the edges file->t for
\* t in P\N, adds exactly the edges file->t for t in N\P, leaves every other
\* edge (those to P \cap N included) as it was, and pushes exactly
\* (P\N) \cup (N\P) onto the work stack.
C3_ImportDiff ==
    [][(pc = "imports" /\ pc' = "loop") =>
          LET f == current_id
              P == file_storage[f].imports
              N == new_imports
              D == (P \ N) \cup (N \ P)
          IN  /\ file_storage'[f].imports = N
              /\ \A t \in P \ N : <<f, t>> \notin created'.edges
              /\ \A t \in N \ P : <<f, t>> \in created'.edges
              /\ \A e \in created.edges \cup created'.edges :
                    (e[1] # f \/ e[2] \notin D) =>
                        (e \in created'.edges <=> e \in created.edges)
              /\ Len(stack') = Len(stack) + Cardinality(D)
              /\ SubSeq(stack', 1, Len(stack)) = stack
              /\ {stack'[i] : i \in Len(stack) + 1 .. Len(stack')} = D]_vars

\* C3 witness: a file has just been diffed whose previous and new import
\* sets share a target and each hold one the other lacks
C3_Witness ==
    /\ pc = "loop"
    /\ current_id \in DOMAIN file_storage
    /\ file_storage[current_id].imports = new_imports
    /\ imports \ new_imports # {}
    /\ new_imports \ imports # {}
    /\ imports \cap new_imports # {}
    /\ {<<current_id, t>> : t \in new_imports} \subseteq created.edges

\* f requires x directly or through other files
ImportsTransitively(g, f, x) ==
    \E n \in 1..Cardinality(g.nodes) :
        \E p \in [1..n + 1 -> g.nodes] :
            /\ p[1] = f
            /\ p[n + 1] = x
            /\ \A i \in 1..n : <<p[i], p[i + 1]>> \in g.edges

\* C4: a compile(X) call that passes the gate and whose sends all succeed
\* notifies X and every file that directly or transitively imports X, and
\* no file more than once.  Stated at the step in which the call returns.
C4_BatchCoversImporters ==
    [][(pc = "batch" /\ pc' = "idle" /\ ret' = "Some") =>
          /\ Count(sent, last.id) = 1
          /\ \A f \in created.nodes :
                ImportsTransitively(created, f, last.id) => Count(sent, f) = 1
          /\ \A f \in Range(sent) : Count(sent, f) = 1]_vars

\* C4 witness: the batch is done and has notified a file that imports the
\* root only through another file
C4_Witness ==
    /\ pc = "batch"
    /\ batch = {}
    /\ \E f \in Range(sent) :
          /\ f # last.id
          /\ <<f, last.id>> \notin created.edges
          /\ ImportsTransitively(created, f, last.id)


\* A step in which the batch loop recomputes one file's diagnostics and the
\* send succeeds; RefreshedFile is that file
RefreshStep == pc = "batch" /\ pc' = "batch" /\ batch' # batch
RefreshedFile == CHOOSE x \in batch \ batch' : TRUE

DupCount(errs, s) == CopiesIn([msg |-> "duplicated function.", span |-> s], errs)
DefSpans(prog) == {prog[i].span : i \in {j \in 1..Len(prog) : prog[j].k = "def"}}
NameAt(prog, s) == (CHOOSE i \in 1..Len(prog) : prog[i].span = s)
SameName(prog, s) ==
    {t \in DefSpans(prog) : prog[NameAt(prog, t)].v = prog[NameAt(prog, s)].v}
ExportedBy(fs, ids) == UNION {{n.data : n \in fs[i].names} : i \in ids}

\* The "duplicated function" diagnostics C5 asks for, given the names that
\* count as imported
DuplicatesAsClaimed(rec, imported) ==
    /\ \A s \in DefSpans(rec.ast) :
          DupCount(rec.errors, s) =
             IF Cardinality(SameName(rec.ast, s)) > 1 THEN 1
             ELSE IF rec.ast[NameAt(rec.ast, s)].v \in imported THEN 1
             ELSE 0
    /\ \A e \in BagToSet(rec.errors) :
          e.msg = "duplicated function." => e.span \in DefSpans(rec.ast)

\* C5 (as claimed): after the binding-resolution pass for a file reparsed in
\* the same compile call, its error list holds exactly one "duplicated
\* function" per occurrence of a name defined more than once, exactly one
\* for a name defined once that also appears in the exported names of a
\* currently imported file, and none for any other definition.
C5_DuplicateDiagnostics ==
    [][(RefreshStep /\ RefreshedFile \in parsed) =>
          LET rec == file_storage'[RefreshedFile]
          IN  DuplicatesAsClaimed(rec, ExportedBy(file_storage', rec.imports))]_vars

\* C5, read against the names the imported files held when the pass began
\* (which differ from those after it only for a file that requires itself)
C5_AtPassStart ==
    [][(RefreshStep /\ RefreshedFile \in parsed) =>
          LET rec == file_storage'[RefreshedFile]
          IN  DuplicatesAsClaimed(rec, ExportedBy(file_storage, rec.imports))]_vars

\* C6 (as claimed): after the binding-resolution pass for a file, its
\* errored_top_levels holds exactly the spans flagged in that pass: every
\* span of the set carries a "duplicated function" or "cannot find variable"
\* diagnostic, and every span carrying one is in the set.
C6_ErroredTopLevels ==
    [][RefreshStep =>
          LET rec == file_storage'[RefreshedFile]
              flagged == {e.span : e \in {x \in BagToSet(rec.errors) :
                             x.msg \in {"duplicated function.",
                                        "cannot find variable"}}}
          IN  rec.errored_tl = flagged]_vars

\* The diagnostics of rec are those of a binding-resolution pass over its
\* current program
HasFreshDiagnostics(rec) ==
    /\ rec.scopes.over = rec.ast
    /\ {n.span : n \in rec.names} = DefSpans(rec.ast)

Diagnostics(rec) ==
    <<rec.names, rec.scopes, rec.errored_tl, rec.errors>>

\* C7: if the send for a batch file fails, compile stops at once and returns
\* failure: that file and the batch files before it have refreshed
\* diagnostics, every batch file after it keeps its defined_names, scopes,
\* errored_top_levels and error list as they were when the batch started,
\* and no further notification is sent.
C7_AbortOnClosedSink ==
    [][(pc = "batch" /\ batch # {} /\ ~sink_open) =>
          /\ pc' = "idle"
          /\ ret' = "None"
          /\ Len(sent') <= Len(sent)
          /\ \E f \in batch :
                /\ HasFreshDiagnostics(file_storage'[f])
                /\ \A g \in batch \ {f} :
                      Diagnostics(file_storage'[g]) = Diagnostics(snap[g])
                /\ \A g \in DOMAIN file_storage \ {f} :
                      file_storage'[g] = file_storage[g]
          /\ \A g \in refreshed : HasFreshDiagnostics(file_storage'[g])]_vars

\* C7 witness: the sink is closed in the middle of a batch, after a file was
\* refreshed and notified and with two files not yet reached, one of which
\* has a program newer than its diagnostics
C7_Witness ==
    /\ pc = "batch"
    /\ ~sink_open
    /\ Len(sent) >= 1
    /\ Cardinality(batch) >= 2
    /\ \E g \in batch : ~HasFreshDiagnostics(file_storage[g])

\* C8: within one compile call a file's diagnostics are recomputed and its
\* notification emitted only once the work stack is empty and no file is
\* in the middle of its reparse and import diff; after the first of them no
\* file is reparsed, no import set stored and no edge changed in that call.
C8_PublishAfterWorklist ==
    [][/\ (\/ Len(sent') > Len(sent)
           \/ \E f \in DOMAIN file_storage :
                 <<file_storage'[f].names, file_storage'[f].scopes,
                   file_storage'[f].errored_tl>>
                   # <<file_storage[f].names, file_storage[f].scopes,
                       file_storage[f].errored_tl>>)
          => (pc = "batch" /\ stack = <<>>
                 /\ \A f \in parsed :
                       file_storage[f].ast = to_abstract(file_storage[f].new_tree).program)
       /\ (pc = "batch" /\ pc' = "batch")
          => (/\ parsed' = parsed
              /\ created' = created
              /\ \A f \in DOMAIN file_storage :
                    /\ file_storage'[f].imports = file_storage[f].imports
                    /\ file_storage'[f].ast = file_storage[f].ast
                    /\ file_storage'[f].new_tree = file_storage[f].new_tree)]_vars

\* C8 witness: a notification has been sent in a call that reparsed two files
C8_Witness ==
    /\ pc = "batch"
    /\ Len(sent) >= 1
    /\ Cardinality(parsed) >= 2
    /\ sent[1] \in parsed

FromOnePass(rec, snapshot) ==
    /\ rec.scopes = scopes_finish(snapshot)
    /\ rec.names = {[data |-> snapshot[i].v, span |-> snapshot[i].span] :
                       i \in {j \in 1..Len(snapshot) : snapshot[j].k = "def"}}
    /\ rec.errored_tl \subseteq {snapshot[i].span : i \in 1..Len(snapshot)}

\* C15: in every state, the states between engine operations included,
\* each file's defined_names, scopes and errored_top_levels come from one
\* binding-resolution pass over one ast snapshot (the one its scopes were
\* computed over); a step that changes one of the three sets all three from
\* the file's ast of that moment.
C15_OnePass ==
    /\ [](\A f \in DOMAIN file_storage :
             FromOnePass(file_storage[f], file_storage[f].scopes.over))
    /\ [][\A f \in DOMAIN file_storage :
             (<<file_storage'[f].names, file_storage'[f].scopes,
                file_storage'[f].errored_tl>>
                # <<file_storage[f].names, file_storage[f].scopes,
                    file_storage[f].errored_tl>>)
             => /\ pc = "batch"
                /\ FromOnePass(file_storage'[f], file_storage[f].ast)]_vars

\* C15 witness: a compile aborted on a closed sink has returned and left a
\* file whose ast is newer than the pass its three fields come from
C15_Witness ==
    /\ pc = "idle"
    /\ last.op = "compile"
    /\ ret = "None"
    /\ ~sink_open
    /\ \E f \in DOMAIN file_storage :
          /\ file_storage[f].names # {}
          /\ file_storage[f].errored_tl # {}
          /\ file_storage[f].scopes.over # file_storage[f].ast

\* C16: within one compile call a file is reparsed and import-diffed at
\* most once, and the worklist phase ends, import cycles and a file that
\* requires itself included.
C16_WorklistTerminates ==
    /\ [][(pc = "loop" /\ pc' = "imports") =>
             /\ current_id' \notin parsed
             /\ parsed' = parsed \cup {current_id'}]_vars
    /\ [](pc \in {"loop", "imports"} => <>(pc \in {"batch", "idle"}))

\* C16 witness: the worklist phase has ended on a graph in which the root
\* requires itself and lies on a cycle through another file
C16_Witness ==
    /\ pc = "batch"
    /\ <<last.id, last.id>> \in created.edges
    /\ \E y \in created.nodes \ {last.id} :
          <<last.id, y>> \in created.edges /\ <<y, last.id>> \in created.edges
    /\ Cardinality(parsed) >= 2

\* the path names no existing, readable regular file
Unresolvable(p) ==
    \/ canonicalize(p) = ""
    \/ ~is_file(canonicalize(p))
    \/ ~read_file_source(canonicalize(p)).ok

RequireForms(prog) == {i \in 1..Len(prog) : prog[i].k = "req"}

\* C17: a require whose path names no existing, readable regular file adds
\* no id to the new import set, creates no file record and no edge and adds
\* no diagnostic to any file; the import diff that follows stores exactly
\* the targets of the resolvable requires and removes the edge to every
\* previous import that no require resolves to any more; and no binding
\* diagnostic is attached to a require form.
C17_UnresolvedRequire ==
    [][/\ (pc = "imports" /\ req_idx' # req_idx
             /\ Unresolvable(program[req_idx' - 1].v))
          => /\ new_imports' = new_imports
             /\ file_storage' = file_storage
             /\ created' = created
             /\ uris' = uris /\ files' = files
       /\ (pc = "imports" /\ pc' = "loop")
          => LET good == {uris[canonicalize(program[i].v)] :
                             i \in {j \in RequireForms(program) :
                                      ~Unresolvable(program[j].v)}}
             IN  /\ file_storage'[current_id].imports = good
                 /\ \A t \in imports \ good :
                       <<current_id, t>> \notin created'.edges
                 /\ \A t \in created'.nodes :
                       <<current_id, t>> \in created'.edges => t \in good
                 /\ DOMAIN file_storage' = DOMAIN file_storage
                 /\ \A f \in DOMAIN file_storage :
                       file_storage'[f].errors = file_storage[f].errors
       /\ RefreshStep
          => LET old == file_storage[RefreshedFile]
                 new == file_storage'[RefreshedFile]
             IN  \A e \in BagToSet(new.errors) :
                    (\E i \in RequireForms(old.ast) : old.ast[i].span = e.span)
                       => CopiesIn(e, new.errors) = CopiesIn(e, old.errors)]_vars

\* C17 witness: a file was diffed again after the file its require names
\* was deleted from disk: the target was in its previous import set and the
\* edge to it is gone
C17_Witness ==
    /\ pc = "loop"
    /\ "/b" \in removed
    /\ uris["/b"] \in imports
    /\ \E i \in RequireForms(program) : program[i].v = "b"
    /\ file_storage[current_id].ast = program
    /\ uris["/b"] \notin file_storage[current_id].imports
    /\ <<current_id, uris["/b"]>> \notin created.edges

\* C17 witness for the other ways not to resolve: a directory and a file
\* that cannot be read
C17_OtherKinds ==
    /\ pc = "loop"
    /\ \E i, j \in RequireForms(program) :
          program[i].v = "dir" /\ program[j].v = "locked"
    /\ file_storage[current_id].ast = program
    /\ imports # {}
    /\ file_storage[current_id].imports = {}

\* the targets of the edges that leave f
EdgesFrom(f) == {e[2] : e \in {x \in created.edges : x[1] = f}}

\* C18: wherever the engine is idle or suspended (between operations, while
\* an import's contents are read, while a notification is sent), the edges
\* that leave a registered file are exactly its stored import set, and no
\* edge leaves an unregistered id.
C18_EdgesAreImports ==
    /\ \A f \in DOMAIN file_storage : EdgesFrom(f) = file_storage[f].imports
    /\ \A e \in created.edges :
          e[1] \in DOMAIN file_storage /\ e[2] \in DOMAIN file_storage

\* C18 witness: the engine is suspended in the batch of a second compile
\* call, after an import of one file was dropped (its target was deleted)
\* and while another file holds two imports
C18_Witness ==
    /\ pc = "batch"
    /\ Cardinality(visited) >= 2
    /\ "/b" \in removed
    /\ \E f \in DOMAIN file_storage :
          /\ \E i \in RequireForms(file_storage[f].ast) :
                file_storage[f].ast[i].v = "b"
          /\ uris["/b"] \notin file_storage[f].imports
    /\ \E f \in DOMAIN file_storage : file_storage[f].imports # {}

\* C19 (as claimed): when compile recomputes the diagnostics of a batch
\* file F, every other file that F imports and that is in the same batch has
\* already had its defined_names recomputed in this call; and when compile
\* returns done, the "duplicated function" diagnostics of every file reparsed
\* and refreshed in the call agree with the names its imports then export.
C19_ImportsRefreshedFirst ==
    [][/\ RefreshStep
          => (file_storage[RefreshedFile].imports \cap batch)
                \subseteq {RefreshedFile}
       /\ (pc = "batch" /\ pc' = "idle" /\ ret' = "Some")
          => \A f \in refreshed \cap parsed :
                f \notin file_storage[f].imports
                   => DuplicatesAsClaimed(file_storage[f],
                         ExportedBy(file_storage, file_storage[f].imports))]_vars

\* C19, the outcome alone: the diagnostics a completed compile leaves agree
\* with the names the imports export at that moment
C19_AgreeAtReturn ==
    [][(pc = "batch" /\ pc' = "idle" /\ ret' = "Some")
          => \A f \in refreshed \cap parsed :
                f \notin file_storage[f].imports
                   => DuplicatesAsClaimed(file_storage[f],
                         ExportedBy(file_storage, file_storage[f].imports))]_vars

BindingMessages == {"duplicated function.", "cannot find variable"}

\* C20 (as claimed): a file's error list holds each binding diagnostic
\* ("duplicated function", "cannot find variable") at most once, also after
\* a later compile call refreshed the file without reparsing it.  Stated
\* for the runs in which the sink stays open, so that no call is aborted.
C20_DiagnosticsOnce ==
    sink_open =>
       \A f \in DOMAIN file_storage :
          \A e \in BagToSet(file_storage[f].errors) :
             e.msg \in BindingMessages
                => CopiesIn(e, file_storage[f].errors) <= 1

-----------------------------------------------------------------------------
(* Properties of the parser.                                               *)

\* C10: parse terminates with a tree and an error list on every token
\* sequence, the empty one included: every iteration of the top-level loop
\* and every Ok result of expr has consumed at least one token, and no step
\* takes a token from an exhausted stream or reaches an unhandled kind.
C10_ParseTerminates ==
    /\ [](ppc # "panic")
    /\ [](\A i \in DOMAIN frames :
             /\ (frames[i].fn = "parse" /\ frames[i].at = "iter_end"
                    /\ i = Len(frames)) => pos > frames[i].p0
             /\ (frames[i].fn = "expr" /\ frames[i].at = "ret"
                    /\ i = Len(frames)) => pos > frames[i].p0)
    /\ [](ppc = "done" =>
             /\ pos = Len(tokens)
             /\ frames = <<>>
             /\ tree # <<>> /\ tree[Len(tree)].e = "finish")
    /\ <>(ppc = "done")

\* C10 witness: parse has returned on a full-length input that starts with
\* a stray closing paren and holds a malformed lexeme and a quote
C10_Witness ==
    /\ ppc = "done"
    /\ Len(tokens) = MaxLen
    /\ tokens[1] = "RPar"
    /\ \E i, j \in DOMAIN tokens : tokens[i] = "Error" /\ tokens[j] = "SimpleQuote"
    /\ Len(errors) >= 2

\* What the input itself says, read off the token sequence
IsTrivia(kind) == kind \in {"Whitespace", "Comment"}

\* the first token after i that is no trivia (0 when there is none)
NextSignificant(i) ==
    LET later == {j \in i + 1 .. Len(tokens) : ~IsTrivia(tokens[j])}
    IN  IF later = {} THEN 0 ELSE CHOOSE j \in later : \A m \in later : j <= m

\* the opening parens still unclosed after the first n tokens
RECURSIVE OpenParens(_)
OpenParens(n) ==
    IF n = 0 THEN <<>>
    ELSE LET before == OpenParens(n - 1)
         IN  CASE tokens[n] = "LPar" -> Append(before, n)
               [] tokens[n] = "RPar" /\ before # <<>> ->
                      SubSeq(before, 1, Len(before) - 1)
               [] OTHER -> before

\* the tree's leaves, in tree order
Leaves == SelectSeq(tree, LAMBDA ev : ev.e = "token")

\* nodes open after the first n events
TreeDepth(n) ==
    Cardinality({i \in 1..n : tree[i].e = "start"})
      - Cardinality({i \in 1..n : tree[i].e = "finish"})

\* every node that was opened is closed, the root last
TreeClosed ==
    /\ tree # <<>>
    /\ TreeDepth(Len(tree)) = 0
    /\ \A n \in 1..Len(tree) - 1 : TreeDepth(n) >= 1

HasNode(kind, sp) == \E i \in DOMAIN tree : tree[i] = StartNode(kind, sp)

\* C11: the leaf tokens appended to the tree, read in tree order, are the
\* input tokens in input order: at every moment exactly the tokens consumed
\* so far, each once, and at the end all of them inside a closed tree.
C11_Lossless ==
    /\ Len(Leaves) = pos
    /\ \A i \in 1..Len(Leaves) : Leaves[i].s = i /\ Leaves[i].k = tokens[i]
    /\ \A i \in DOMAIN tree : tree[i].e \in {"start", "token", "finish"}
    /\ ppc = "done" => (pos = Len(tokens) /\ TreeClosed)

\* C11 witness: parse has returned on an input holding whitespace, a
\* comment, a stray closing paren and a malformed lexeme
C11_Witness ==
    /\ ppc = "done"
    /\ {"Whitespace", "Comment", "RPar", "Error"} \subseteq Range(tokens)
    /\ OpenParens(Len(tokens)) = <<>>
    /\ Len(Leaves) = MaxLen

\* C12 (as claimed): every syntax error of the returned error list is also
\* an Error node of the tree at the error's span, and a malformed lexeme,
\* wherever it occurs, is a leaf directly inside an Error node and is
\* reported as "unfinished string".
C12_ErrorsAreNodes ==
    ppc = "done" =>
       /\ \A j \in DOMAIN errors : HasNode("Error", errors[j].span)
       /\ \A i \in DOMAIN tokens :
             tokens[i] = "Error" =>
                /\ Count(errors, [msg |-> "unfinished string", span |-> i]) = 1
                /\ \E n \in 1..Len(tree) - 1 :
                      /\ tree[n] = StartNode("Error", i)
                      /\ tree[n + 1] = Leaf(i)

\* C12, the part the parser does keep: an error reported at the top level
\* ("Expected (") has its Error node
C12_TopLevelErrorsAreNodes ==
    ppc = "done" =>
       \A j \in DOMAIN errors :
          errors[j].msg = "Expected (" => HasNode("Error", errors[j].span)

\* a quote prefix followed by no expression
QuoteWithoutExpr(i) ==
    /\ tokens[i] = "SimpleQuote"
    /\ NextSignificant(i) = 0 \/ tokens[NextSignificant(i)] = "RPar"

NoExpressionRecorded(i) ==
    /\ Count(errors, [msg |-> "no expression", span |-> i]) = 1
    /\ HasNode("Quote", i)
    /\ TreeClosed

\* C13 (as claimed): whenever a quote prefix is followed by end of input or
\* a closing paren -- the input "'" alone included -- parse records exactly
\* one "no expression" error at the quote's span and the Quote node is
\* opened and closed.
C13_QuoteWithoutExpression ==
    ppc = "done" =>
       \A i \in DOMAIN tokens : QuoteWithoutExpr(i) => NoExpressionRecorded(i)

\* C13 for a quote prefix inside a list, where expr reaches it
C13_InsideList ==
    ppc = "done" =>
       \A i \in DOMAIN tokens :
          (QuoteWithoutExpr(i) /\ OpenParens(i - 1) # <<>>)
             => NoExpressionRecorded(i)

\* the input ends with opening parens unclosed and is otherwise well formed:
\* no malformed lexeme, nothing but lists at the top level, an expression
\* after every quote prefix
UnclosedOnly ==
    /\ OpenParens(Len(tokens)) # <<>>
    /\ \A i \in DOMAIN tokens :
          /\ tokens[i] # "Error"
          /\ (~IsTrivia(tokens[i]) /\ OpenParens(i - 1) = <<>>) => tokens[i] = "LPar"
          /\ ~QuoteWithoutExpr(i)

\* C14: on input that ends with k >= 1 opening parens unclosed and is
\* otherwise well formed, parse records exactly k "unmatched" errors, one at
\* the span of each unclosed paren, and no other error, closes every List
\* node and stops at end of input.
C14_UnmatchedParens ==
    (ppc = "done" /\ UnclosedOnly) =>
       LET open == OpenParens(Len(tokens))
       IN  /\ Len(errors) = Len(open)
           /\ \A j \in DOMAIN open :
                 Count(errors, [msg |-> "unmatched", span |-> open[j]]) = 1
           /\ \A j \in DOMAIN open : HasNode("List", open[j])
           /\ TreeClosed
           /\ pos = Len(tokens)

\* C14 witness: parse has returned on an input with two parens left open,
\* the inner one after an element of the outer list
C14_Witness ==
    /\ ppc = "done"
    /\ UnclosedOnly
    /\ Len(OpenParens(Len(tokens))) = 2
    /\ tokens[1] = "LPar" /\ tokens[2] = "Identifier"
    /\ Len(errors) = 2

=============================================================================
